---- MODULE Spec2Model ----
(***************************************************************************)
(* Version store and installer of the Rockide editor integration.          *)
(*                                                                         *)
(* The file system under globalStorage is the variable fs:                 *)
(*   binaries/<tag>/            one directory per installed release        *)
(*   binaries/<tag>/<exe>       the platform executable                    *)
(*   temp/<archiveName>         the staged archive                         *)
(* A release is named by its position in the catalog (1 is the oldest),    *)
(* and `latest` is the number of releases published so far.                *)
(*                                                                         *)
(* install() is an async function: every `await` on a network or file      *)
(* system request is a point where another task may run.  Each action      *)
(* below is the code between two such points.                              *)
(***************************************************************************)
EXTENDS Integers, Sequences, FiniteSets, TLC

VARIABLES latest, fs, call, host, prev, fixed, gate, chk, xfer, act, calc, lsp, cmd

\* What the installer's actions leave alone: host never changes while the
\* extension runs, prev is written by a caller that repeats its call, and
\* fixed is the binary kept at a fixed path outside the version store, and
\* gate is the clock and the globalState of the update checks.
\* chk is the last update comparison, xfer the transfer of one archive, act
\* one activation of the extension, calc the arguments and the value of one
\* call of a function that keeps no state.
side == <<chk, xfer, act, calc, lsp, cmd>>

rest == <<host, prev, fixed, gate, side>>

vars == <<latest, fs, call, host, prev, fixed, gate, chk, xfer, act, calc, lsp, cmd>>

(***************************************************************************)
(* Program constants.                                                       *)
(***************************************************************************)
maxVersions == 5

MinBinarySize == 1000000

\* The delay of the timer that activate() races against ensureRockideBinary.
Deadline == 30000

\* Hex digits of a SHA-256 digest.
SHA256_HEX_LENGTH == 64

(***************************************************************************)
(* Bounds of the model.                                                     *)
(***************************************************************************)
\* Releases the catalog can hold beyond the retention limit.
ExtraTags == 1

\* How many of the most recent releases an explicit version request may name.
SelectWindow == 1

\* Releases published while invocations of install() overlap.
ConcTags == 2

\* Releases published while a caller repeats its call.
TwiceTags == 3

\* How many steps the clock makes after the extension was first activated.
MaxTicks == 6

\* Chunks of one response body.
MaxChunks == 3

\* How long an activation is followed, in steps of WaitStep milliseconds.
MaxWait == 8

\* Releases in the catalog that getRelease searches.
MaxCatalog == 2

\* Lines of a checksum file.
MaxLines == 2

\* Entries of the directory that cleanup is called on.
MaxEntries == 2

NumTags == maxVersions + ExtraTags

Tags == 1 .. NumTags

\* Invocations of install() that can be in flight at once.
Slots == {1, 2}

NoFile == 0 - 1

NoTag == 0

\* The configured rockide.binaryPath, as a path that is no managed version.
CustomPath == 0 - 2

\* process.platform and process.arch of the extension host: one of the
\* combinations getPlatform and getArchitecture name, or another one.
Hosts == {"supported", "unsupported"}

\* getPlatformInfo returns a value, or throws on a host it does not name.
getPlatformInfo(h) == h = "supported"

(***************************************************************************)
(* Archives a download can deliver.  "good" holds an executable of at      *)
(* least MinBinarySize bytes, "small" a shorter one, "noexe" holds files   *)
(* but not the executable, "corrupt" cannot be unpacked.                   *)
(***************************************************************************)
ArchiveKinds == {"good", "small", "noexe", "corrupt"}

\* The asset of the oldest release may lack the executable; the assets of
\* the releases beyond the retention limit may carry a truncated one.
KindsOf(t) ==
    {"good", "corrupt"}
        \cup (IF t = 1 THEN {"noexe"} ELSE {})
        \cup (IF t > maxVersions THEN {"small"} ELSE {})

ExeSizeIn(kind) ==
    CASE kind = "good" -> MinBinarySize
      [] kind = "small" -> MinBinarySize - 1
      [] OTHER -> NoFile

\* SHA-256 of a staged file, as lower-case hex: distinct contents, distinct digests.
calculateFileHash(content) ==
    CASE content = "good" -> "0a"
      [] content = "small" -> "1b"
      [] content = "noexe" -> "2c"
      [] content = "corrupt" -> "3d"

toLowerCase(h) ==
    CASE h = "0A" -> "0a"
      [] h = "1B" -> "1b"
      [] h = "2C" -> "2c"
      [] h = "3D" -> "3d"
      [] OTHER -> h

\* What the checksum URL can deliver: no response, a manifest without a line
\* for the archive, or a manifest whose line for the archive gives a digest.
Manifests == {"unavailable", "noentry", "0a", "0A", "1b", "2c", "3d"}

(***************************************************************************)
(* The file system.                                                         *)
(*   mtime[t]  0 when binaries/<t> does not exist, else the rank of its    *)
(*             modification time among the existing directories            *)
(*   exe[t]    size of binaries/<t>/<exe>, NoFile when absent              *)
(*   other[t]  binaries/<t> holds files besides the executable             *)
(*   locked    the tag whose executable a running process holds open       *)
(*   archive   content of temp/<archiveName>, "absent" when not there      *)
(***************************************************************************)
Dirs(S) == {t \in Tags : S.mtime[t] > 0}

isDirectory(S, t) == S.mtime[t] > 0

\* Modification times only matter through their order: keep them as ranks.
Ranked(m) ==
    [t \in Tags |->
        IF m[t] = 0 THEN 0
        ELSE Cardinality({u \in Tags : m[u] > 0 /\ m[u] <= m[t]})]

\* An entry of binaries/<t> was created or deleted: the directory is now the
\* most recently modified one.
Touch(S, t) == [S EXCEPT !.mtime = Ranked([S.mtime EXCEPT ![t] = NumTags + 1])]

rmdir(S, t) ==
    [S EXCEPT !.mtime = Ranked([S.mtime EXCEPT ![t] = 0]),
              !.exe[t] = NoFile,
              !.other[t] = FALSE]

\* The sort comparator reversed: a.time - b.time.
getInstalledVersions_oldestFirst(S) ==
    LET versions == Dirs(S)
        before(t) == {u \in versions : S.mtime[u] <= S.mtime[t]}
    IN  [i \in 1 .. Cardinality(versions) |->
            CHOOSE t \in versions : Cardinality(before(t)) = i]

getInstalledVersions(S) ==
    LET versions == Dirs(S)
        before(t) == {u \in versions : S.mtime[u] >= S.mtime[t]}
    IN  [i \in 1 .. Cardinality(versions) |->
            CHOOSE t \in versions : Cardinality(before(t)) = i]

\* The test made on the version directory instead of the executable.
getInstalledBinaryPath_dirExists(S, version) == isDirectory(S, version)

\* The test always negative: no version is ever found on disk.
getInstalledBinaryPath_never(S, version) == FALSE

\* The test left out: the path is returned whatever is on disk.
getInstalledBinaryPath_always(S, version) == TRUE

getInstalledBinaryPath(S, version) == S.exe[version] # NoFile

\* customPath: rockide.binaryPath is configured and the file exists.
getActiveBinaryPath(S, customPath) ==
    LET versions == getInstalledVersions(S)
    IN  IF customPath THEN CustomPath
        ELSE IF Len(versions) = 0 THEN NoTag
        ELSE versions[1]

\* RockideInstaller.cleanup on a version directory: every file is unlinked
\* except one that is held open (EBUSY, EPERM, EACCES), then the directory is
\* removed unless a file is left in it (ENOTEMPTY).  Nothing is raised.
cleanup(S, t) ==
    IF ~isDirectory(S, t) THEN S
    ELSE IF S.exe[t] # NoFile /\ S.locked = t
         THEN IF S.other[t]
              THEN Touch([S EXCEPT !.other[t] = FALSE], t)
              ELSE S
         ELSE rmdir(S, t)

RECURSIVE cleanupAll(_, _)
cleanupAll(S, versionsToRemove) ==
    IF versionsToRemove = <<>> THEN S
    ELSE cleanupAll(cleanup(S, Head(versionsToRemove)), Tail(versionsToRemove))

\* The slice off by one: versions.slice(maxVersions + 1).
cleanupOldVersions_keepsOneMore(S) ==
    LET versions == getInstalledVersions(S)
    IN  IF Len(versions) <= maxVersions + 1 THEN S
        ELSE cleanupAll(S, SubSeq(versions, maxVersions + 2, Len(versions)))

cleanupOldVersions(S) ==
    LET versions == getInstalledVersions(S)
    IN  IF Len(versions) <= maxVersions THEN S
        ELSE cleanupAll(S, SubSeq(versions, maxVersions + 1, Len(versions)))

\* Only a file that this transfer wrote is unlinked.
Downloader_cleanup_ifWritten(S) ==
    IF S.archive = "stale" THEN S ELSE [S EXCEPT !.archive = "absent"]

\* The unlink left out.
Downloader_cleanup_leavesFile(S) == S

\* Downloader.cleanup on the staged archive.
Downloader_cleanup(S) == [S EXCEPT !.archive = "absent"]

\* Extractor.cleanup on the staged archive, then cleanupTempDir.
cleanupTempDir(S) == [S EXCEPT !.archive = "absent"]

\* Extractor.extractTarGz: the directory is created if needed, tar unpacks
\* the archive into it.  tar fails on an archive it cannot read and on an
\* executable it cannot replace because a process holds it open.
tarFails(S, t) ==
    \/ S.archive \in {"absent", "corrupt"}
    \/ S.archive \in {"good", "small"} /\ S.exe[t] # NoFile /\ S.locked = t

ensureDirectoryExists(S, t) == IF isDirectory(S, t) THEN S ELSE Touch(S, t)

extractTarGz(S, t) ==
    LET D == ensureDirectoryExists(S, t)
    IN  IF tarFails(D, t) THEN D
        ELSE IF D.archive = "noexe"
             THEN Touch([D EXCEPT !.other[t] = TRUE], t)
             ELSE Touch([D EXCEPT !.exe[t] = ExeSizeIn(D.archive)], t)

verifyInstallation(S, t) ==
    /\ S.exe[t] # NoFile
    /\ ~(S.exe[t] < MinBinarySize)

\* A manifest that cannot be fetched, or has no line for the file, accepted.
verifyDownloadChecksum_lenient(S, manifest) ==
    IF manifest = "unavailable" THEN TRUE
    ELSE IF manifest = "noentry" THEN TRUE
    ELSE IF S.archive = "absent" THEN FALSE
    ELSE toLowerCase(calculateFileHash(S.archive)) = toLowerCase(manifest)

\* The result of the verification not looked at.
verifyDownloadChecksum_skipped(S, manifest) == TRUE

\* Downloader.verifyDownloadChecksum with CryptoUtils.verifyFileHash.
verifyDownloadChecksum(S, manifest) ==
    IF manifest = "unavailable" THEN FALSE
    ELSE IF manifest = "noentry" THEN FALSE
    ELSE IF S.archive = "absent" THEN FALSE
    ELSE toLowerCase(calculateFileHash(S.archive)) = toLowerCase(manifest)

\* What the manifest states about the staged file, for the record of the call:
\* the digests that name each content, in either case of the hex letters.
DigestsOf(content) ==
    CASE content = "good" -> {"0a", "0A"}
      [] content = "small" -> {"1b", "1B"}
      [] content = "noexe" -> {"2c", "2C"}
      [] content = "corrupt" -> {"3d", "3D"}
      [] OTHER -> {}

ManifestSays(S, manifest) ==
    IF manifest \in {"unavailable", "noentry"} THEN manifest
    ELSE IF manifest \in DigestsOf(S.archive) THEN "match"
    ELSE "mismatch"

(***************************************************************************)
(* One invocation of install().                                             *)
(***************************************************************************)
\* net, wrote and the fields after checksumUrl are the record of what the
\* invocation did: the requests it sent, whether it changed binaries/, and
\* what the steps found.
Store(S) == <<S.mtime, S.exe, S.other>>

Idle ==
    [pc |-> "idle", version |-> NoTag, forceReinstall |-> FALSE,
     customPath |-> FALSE, net |-> {}, wrote |-> FALSE,
     lookup |-> "none",
     tag |-> NoTag, asset |-> FALSE, checksumUrl |-> FALSE,
     checksum |-> "none", unpacked |-> FALSE, listed |-> <<>>,
     pruned |-> {}, error |-> "none", result |-> "pending"]

InFlight(p) == call[p].pc \notin {"idle", "done"}

AllIdle == \A p \in Slots : call[p].pc = "idle"

Finish(c, result, error) ==
    [c EXCEPT !.pc = "done", !.result = result, !.error = error]

\* The update checks: the intervals of the two gates, in milliseconds.
twentyFourHours == 24 * 60 * 60 * 1000

UPDATE_CHECK_INTERVAL == 12 * 60 * 60 * 1000

\* Date.now() moves in steps of six hours, from a first activation that is
\* later than either interval after the default timestamp 0.
ClockStep == 6 * 60 * 60 * 1000

FirstActivation == twentyFourHours

\* The comparison left out: no check is ever skipped.
gated_never(now, last, interval) == FALSE

\* The comparison inverted: the check is skipped once the interval is over.
gated_inverted(now, last, interval) == now - last > interval

\* now - lastCheck < interval: the check is skipped.
gated(now, last, interval) == now - last < interval

\* The record of one update check: when it was invoked, the timestamp it
\* read, the requests it sent, whether it wrote the timestamp, how it ended.
NoCheck ==
    [pc |-> "idle", silent |-> FALSE, at |-> 0, seen |-> 0, net |-> 0,
     stamped |-> FALSE, outcome |-> "none"]

\* No comparison made, no transfer begun, the extension not activated.
NoComparison ==
    [response |-> "none", current |-> NoTag, release |-> NoTag, result |-> "none"]

NoTransfer ==
    [pc |-> "idle", fn |-> "none", checksumUrl |-> FALSE, cancelled |-> FALSE,
     chunks |-> 0, late |-> 0, archive |-> "absent", found |-> "absent",
     transport |-> "none", outcome |-> "none"]

NotActivated ==
    [pc |-> "idle", entry |-> "none", elapsed |-> 0, timer |-> "unset",
     resolution |-> "none", stage |-> "none", binaryPath |-> "none",
     background |-> FALSE, server |-> FALSE, timedOut |-> FALSE]

MaxClients == 3

Clients == 1 .. MaxClients

NoUpdate == [pc |-> "idle", client |-> NoTag, was |-> FALSE,
             install |-> "none", restart |-> "none"]

\* No language client has been constructed and no update is under way.
NoClient == [current |-> NoTag, status |-> [c \in Clients |-> "none"],
             last |-> "none", upd |-> NoUpdate]

\* No update command is under way.
NoCommand == [pc |-> "idle", checked |-> FALSE, valid |-> {}]

NoCalc == [op |-> "none", done |-> FALSE]

InitProgram ==
    /\ latest = 0
    /\ fs = [mtime |-> [t \in Tags |-> 0],
             exe |-> [t \in Tags |-> NoFile],
             other |-> [t \in Tags |-> FALSE],
             locked |-> NoTag,
             archive |-> "absent"]
    /\ call = [p \in Slots |-> Idle]
    /\ prev = Idle
    /\ fixed = [pc |-> "idle", release |-> NoTag, dest |-> NoFile, old |-> NoFile,
                before |-> NoFile, beforeOld |-> NoFile, cause |-> "none",
                had |-> FALSE, last |-> "none"]
    /\ gate = [now |-> FirstActivation, lastUpdateCheck |-> 0, lastUpdate |-> 0,
               bg |-> NoCheck, upd |-> NoCheck]
    /\ chk = NoComparison
    /\ xfer = NoTransfer
    /\ act = NotActivated
    /\ lsp = NoClient
    /\ cmd = NoCommand

Init == InitProgram /\ host \in Hosts /\ calc = NoCalc

(***************************************************************************)
(* The release catalog, as GitHubClient answers.                            *)
(***************************************************************************)
\* What the request for the catalog meets: an answer with a status, or no
\* answer at all.  /releases/latest answers 404 while nothing is published.
Responses == {"200", "404", "500", "network"}

Answers == IF latest = 0 THEN Responses \ {"200"} ELSE Responses

\* The answers that install() tells apart: a rejected fetch and a status
\* that is not ok both end in the catch of getReleaseOrLatest.
Statuses == Answers \ {"network"}

\* The value of a lookup that threw.
Raised == 0 - 4

\* The 404 treated like every other status that is not ok.
getLatestRelease_throwsOn404(response) ==
    IF response = "200" THEN latest ELSE Raised

\* getLatestRelease(): null on 404, an Error on any other status that is
\* not ok and when fetch rejects, the release otherwise.
getLatestRelease(response) ==
    IF response = "200" THEN latest
    ELSE IF response = "404" THEN NoTag
    ELSE Raised

\* getRelease(version): getAllReleases throws on every status that is not
\* ok; the release with that tag is looked for in the list.
getRelease(version, response) ==
    IF response # "200" THEN Raised
    ELSE IF version \in 1 .. latest THEN version
    ELSE NoTag

\* How the lookup ended, for the record of the invocation.
LookupOf(release) ==
    IF release = Raised THEN "raised"
    ELSE IF release = NoTag THEN "null"
    ELSE "found"

\* getRelease(version) when a version is given, getLatestRelease() otherwise;
\* NoTag when the catalog has no such release or the request fails.
getReleaseOrLatest(version, response) ==
    LET release == IF version # NoTag
                   THEN getRelease(version, response)
                   ELSE getLatestRelease(response)
    IN  IF release = Raised THEN NoTag ELSE release

\* The name test left out: some asset of the release is taken.
getAssetForPlatform_any(release) == TRUE

getAssetForPlatform(release) == release.asset

getChecksumAssetForPlatform(release) == release.checksums

\* getCurrentVersion(): the directory name in the path of the active binary;
\* a path outside binaries/ does not name one, and the most recently
\* modified version directory is taken instead.
getCurrentVersion(S, customPath) ==
    LET binaryPath == getActiveBinaryPath(S, customPath)
        versions == getInstalledVersions(S)
    IN  IF binaryPath = NoTag THEN NoTag
        ELSE IF binaryPath # CustomPath THEN binaryPath
        ELSE IF Len(versions) > 0 THEN versions[1]
        ELSE NoTag

\* The test on currentVersion left out: no version in use counts as an update.
checkForUpdates_unknownIsUpdate(S, customPath, response) ==
    LET currentVersion == getCurrentVersion(S, customPath)
        latestRelease == getLatestRelease(response)
    IN  IF latestRelease = Raised THEN "false"
        ELSE IF latestRelease = NoTag THEN "false"
        ELSE IF latestRelease # currentVersion THEN "true" ELSE "false"

\* Lines 97-111: an exception of either call is caught and gives false.
checkForUpdates(S, customPath, response) ==
    LET currentVersion == getCurrentVersion(S, customPath)
        latestRelease == getLatestRelease(response)
    IN  IF latestRelease = Raised THEN "false"
        ELSE IF latestRelease = NoTag \/ currentVersion = NoTag THEN "false"
        ELSE IF latestRelease # currentVersion THEN "true" ELSE "false"

\* Versions a caller can ask for: none (the latest release), or one of the
\* SelectWindow most recent releases.
Requests == {NoTag} \cup {t \in Tags : t <= latest /\ t + SelectWindow > latest}

(***************************************************************************)
(* install(), lines 35-38: the configured binaryPath is returned when it    *)
(* exists and no reinstall is forced; otherwise the release is requested.   *)
(***************************************************************************)
InstallBegin(p) ==
    /\ call[p].pc = "idle"
    /\ \E version \in Requests, forceReinstall \in BOOLEAN, customPath \in BOOLEAN :
          call' = [call EXCEPT ![p] =
                      IF customPath /\ ~forceReinstall
                      THEN Finish([Idle EXCEPT !.customPath = TRUE], "custom", "none")
                      ELSE [Idle EXCEPT !.pc = "resolving",
                                        !.version = version,
                                        !.forceReinstall = forceReinstall,
                                        !.customPath = customPath]]
    /\ UNCHANGED <<latest, fs, rest>>

(***************************************************************************)
(* install(), lines 40-56 and downloadAndInstall, line 153: the release     *)
(* arrived (or not); already installed, no asset, or go on to download.     *)
(***************************************************************************)
ResolveRelease(p) ==
    /\ call[p].pc = "resolving"
    /\ \E response \in Statuses, asset \in BOOLEAN, checksums \in BOOLEAN :
          LET tag == getReleaseOrLatest(call[p].version, response)
              \* customPath, read at line 35, is not used after line 36
              c == [call[p] EXCEPT !.net = @ \cup {"release"},
                                   !.customPath = FALSE,
                                   !.lookup =
                                       LookupOf(IF call[p].version # NoTag
                                                THEN getRelease(call[p].version, response)
                                                ELSE getLatestRelease(response)),
                                   !.asset = asset /\ tag # NoTag]
              release == [tag_name |-> tag, asset |-> asset, checksums |-> checksums]
          IN  call' = [call EXCEPT ![p] =
                  IF tag = NoTag
                  THEN Finish(c, "null", "release")
                  ELSE IF ~getPlatformInfo(host)
                  THEN Finish([c EXCEPT !.tag = tag], "thrown", "platform")
                  ELSE IF getInstalledBinaryPath(fs, tag) /\ ~c.forceReinstall
                  THEN Finish([c EXCEPT !.tag = tag], "existing", "none")
                  ELSE IF ~getAssetForPlatform(release)
                  THEN Finish([c EXCEPT !.tag = tag], "null", "asset")
                  ELSE [c EXCEPT !.tag = tag,
                                 !.checksumUrl = getChecksumAssetForPlatform(release),
                                 !.pc = IF isDirectory(fs, tag)
                                        THEN "cleaning" ELSE "downloading"]]
    /\ UNCHANGED <<latest, fs, rest>>

\* downloadAndInstall, lines 153-155: the existing version directory is cleaned.
CleanVersionDir(p) ==
    /\ call[p].pc = "cleaning"
    /\ fs' = cleanup(fs, call[p].tag)
    /\ call' = [call EXCEPT ![p].pc = "downloading",
                            ![p].wrote = @ \/ Store(fs') # Store(fs)]
    /\ UNCHANGED <<latest, rest>>

\* Downloader.downloadWithProgress up to the write of the file: the body is
\* collected in memory and written once; a failed or cancelled transfer
\* unlinks whatever is at the destination.
Download(p) ==
    /\ call[p].pc = "downloading"
    /\ \E outcome \in {"ok", "failed", "cancelled"}, kind \in KindsOf(call[p].tag) :
          IF outcome = "ok"
          THEN /\ fs' = [fs EXCEPT !.archive = kind]
               /\ call' = [call EXCEPT ![p].pc =
                              IF call[p].checksumUrl THEN "verifying" ELSE "extracting",
                                       ![p].net = @ \cup {"asset"}]
          ELSE /\ fs' = Downloader_cleanup(fs)
               /\ call' = [call EXCEPT ![p].pc = "rollback", ![p].error = outcome,
                                       ![p].net = @ \cup {"asset"}]
    /\ UNCHANGED <<latest, rest>>

\* Downloader.downloadWithProgress, lines 225-237: the checksum is verified;
\* on failure the staged archive is unlinked and the error raised.
VerifyChecksum(p) ==
    /\ call[p].pc = "verifying"
    /\ \E manifest \in Manifests :
          IF verifyDownloadChecksum(fs, manifest)
          THEN /\ call' = [call EXCEPT ![p].pc = "extracting",
                                       ![p].net = @ \cup {"checksums"},
                                       ![p].checksum = ManifestSays(fs, manifest)]
               /\ fs' = fs
          ELSE /\ call' = [call EXCEPT ![p].pc = "rollback",
                                       ![p].error = "checksum",
                                       ![p].net = @ \cup {"checksums"},
                                       ![p].checksum = ManifestSays(fs, manifest)]
               /\ fs' = Downloader_cleanup(fs)
    /\ UNCHANGED <<latest, rest>>

\* downloadAndInstall, line 165.
Extract(p) ==
    /\ call[p].pc = "extracting"
    /\ fs' = extractTarGz(fs, call[p].tag)
    /\ call' = [call EXCEPT ![p].unpacked = TRUE,
                            ![p].wrote = @ \/ Store(fs') # Store(fs),
                            ![p].pc = IF tarFails(ensureDirectoryExists(fs, call[p].tag),
                                                  call[p].tag)
                                      THEN "rollback" ELSE "unstaging",
                            ![p].error = IF tarFails(ensureDirectoryExists(fs, call[p].tag),
                                                     call[p].tag)
                                         THEN "extract" ELSE "none"]
    /\ UNCHANGED <<latest, rest>>

\* downloadAndInstall, lines 167-170: the archive and the temp directory go.
Unstage(p) ==
    /\ call[p].pc = "unstaging"
    /\ fs' = cleanupTempDir(fs)
    /\ call' = [call EXCEPT ![p].pc = "pruning"]
    /\ UNCHANGED <<latest, rest>>

\* install(), line 66.  getInstalledVersions awaits readdir and stat without
\* a try block: when one of them is rejected, cleanupOldVersions is rejected
\* and the catch of install(), lines 71-75, returns null.
Prune(p) ==
    /\ call[p].pc = "pruning"
    /\ \E listing \in {"ok", "rejected"} :
          IF listing = "ok"
          THEN /\ fs' = cleanupOldVersions(fs)
               /\ call' = [call EXCEPT ![p].pc = "validating",
                                       ![p].wrote = @ \/ Store(fs') # Store(fs),
                                       ![p].listed = getInstalledVersions(fs),
                                       ![p].pruned = Dirs(fs) \ Dirs(cleanupOldVersions(fs))]
          ELSE /\ fs' = fs
               /\ call' = [call EXCEPT ![p] = Finish(call[p], "null", "listing")]
    /\ UNCHANGED <<latest, rest>>

\* install(), lines 67-75.
Validate(p) ==
    /\ call[p].pc = "validating"
    /\ call' = [call EXCEPT ![p] =
                   IF verifyInstallation(fs, call[p].tag)
                   THEN Finish(call[p], "installed", "none")
                   ELSE Finish(call[p], "null", "invalid")]
    /\ UNCHANGED <<latest, fs, rest>>

\* The catch block rethrowing without cleanup(versionDir).
Rollback_withoutCleanup(p) ==
    /\ call[p].pc = "rollback"
    /\ call' = [call EXCEPT ![p] = Finish(call[p], "null", call[p].error)]
    /\ UNCHANGED <<latest, fs, rest>>

\* downloadAndInstall, lines 171-174, then install(), lines 71-75.
Rollback(p) ==
    /\ call[p].pc = "rollback"
    /\ fs' = cleanup(fs, call[p].tag)
    /\ call' = [call EXCEPT ![p] =
                   Finish([call[p] EXCEPT !.wrote = @ \/ Store(fs') # Store(fs)],
                          "null", call[p].error)]
    /\ UNCHANGED <<latest, rest>>

\* The caller has the result; the slot is free for the next invocation.
Return(p) ==
    /\ call[p].pc = "done"
    /\ call' = [call EXCEPT ![p] = Idle]
    /\ UNCHANGED <<latest, fs, rest>>

(***************************************************************************)
(* The environment.                                                         *)
(***************************************************************************)
Publish(cap) ==
    /\ latest < cap
    /\ latest' = latest + 1
    /\ UNCHANGED <<fs, call, rest>>

\* The language server is started on the active binary and holds it open.
LockExe ==
    /\ AllIdle
    /\ fs.locked = NoTag
    /\ getActiveBinaryPath(fs, FALSE) # NoTag
    /\ fs.exe[getActiveBinaryPath(fs, FALSE)] # NoFile
    /\ fs' = [fs EXCEPT !.locked = getActiveBinaryPath(fs, FALSE)]
    /\ UNCHANGED <<latest, call, rest>>

UnlockExe ==
    /\ AllIdle
    /\ fs.locked # NoTag
    /\ fs' = [fs EXCEPT !.locked = NoTag]
    /\ UNCHANGED <<latest, call, rest>>

Step(p) ==
    \/ InstallBegin(p)
    \/ ResolveRelease(p)
    \/ CleanVersionDir(p)
    \/ Download(p)
    \/ VerifyChecksum(p)
    \/ Extract(p)
    \/ Unstage(p)
    \/ Prune(p)
    \/ Validate(p)
    \/ Rollback(p)
    \/ Return(p)

\* Invocations of install() one after the other.
Next ==
    \/ AllIdle /\ Publish(NumTags)
    \/ LockExe
    \/ UnlockExe
    \/ Step(1)

Spec == Init /\ [][Next]_vars

(***************************************************************************)
(* A caller that repeats its call: install({version: V}) has returned and   *)
(* install({version: V}) is called again at once, with the same options and *)
(* the same configuration.  prev is the record of the first call.           *)
(***************************************************************************)
InstallAgain(p) ==
    /\ call[p].pc = "done"
    /\ prev.pc = "idle"
    /\ call[p].version # NoTag
    /\ ~call[p].forceReinstall
    /\ prev' = call[p]
    /\ call' = [call EXCEPT ![p] =
                   [Idle EXCEPT !.pc = "resolving", !.version = call[p].version]]
    /\ UNCHANGED <<latest, fs, host, fixed, gate, side>>

\* The caller has the result of its last call.
ReturnLast(p) ==
    /\ call[p].pc = "done"
    /\ call' = [call EXCEPT ![p] = Idle]
    /\ prev' = Idle
    /\ UNCHANGED <<latest, fs, host, fixed, gate, side>>

StepTwice(p) ==
    \/ InstallBegin(p)
    \/ ResolveRelease(p)
    \/ CleanVersionDir(p)
    \/ Download(p)
    \/ VerifyChecksum(p)
    \/ Extract(p)
    \/ Unstage(p)
    \/ Prune(p)
    \/ Validate(p)
    \/ Rollback(p)
    \/ InstallAgain(p)
    \/ ReturnLast(p)

NextTwice ==
    \/ AllIdle /\ Publish(TwiceTags)
    \/ LockExe
    \/ UnlockExe
    \/ StepTwice(1)

SpecTwice == Init /\ [][NextTwice]_vars

(***************************************************************************)
(* installRockide(dest, release): the binary kept at a fixed path.          *)
(*   dest, old   what is at <dest> and at <dest>.old: NoFile, Truncated,    *)
(*               or the number of the release whose executable it is        *)
(*   before      what was at <dest> when the call began                     *)
(*   beforeOld   what was at <dest>.old when the call began                 *)
(*   cause       the step that threw, when the last call ended thrown       *)
(*   had         a call has written a complete executable                   *)
(*   last        how the last call ended                                    *)
(***************************************************************************)
Truncated == 0 - 3

Working(content) == content >= 1

\* The destination unlinked when a call fails, as Downloader.cleanup does.
Thrown_unlinksDest(f, cause) ==
    [f EXCEPT !.pc = "idle", !.last = "thrown", !.cause = cause, !.dest = NoFile]

Thrown(f, cause) == [f EXCEPT !.pc = "idle", !.last = "thrown", !.cause = cause]

\* What downloadAsset, gunzipAsync, unpackTar and the search of the entries
\* can end with.
AssetOutcomes ==
    {"ok", "download", "cancelled", "checksum", "gunzip", "unpack", "executable"}

\* Lines 73-78: the latest release is fetched unless the caller passed it;
\* no asset for the target, or a failed request, throws.
installRockide_resolve ==
    /\ fixed.pc = "idle"
    /\ \E reachable \in BOOLEAN, asset \in BOOLEAN :
          fixed' = IF reachable /\ latest > 0 /\ getAssetForPlatform([asset |-> asset])
                   THEN [fixed EXCEPT !.pc = "downloading", !.release = latest,
                                      !.before = fixed.dest,
                                      !.beforeOld = fixed.old,
                                      !.cause = "none", !.last = "none"]
                   ELSE Thrown([fixed EXCEPT !.before = fixed.dest,
                                             !.beforeOld = fixed.old],
                               IF reachable /\ latest > 0 THEN "asset" ELSE "release")
    /\ UNCHANGED <<latest, fs, call, host, prev, gate, side>>

\* Lines 80-86: the asset is downloaded, verified and unpacked in memory.
installRockide_download ==
    /\ fixed.pc = "downloading"
    /\ \E outcome \in AssetOutcomes :
          fixed' = IF outcome = "ok" THEN [fixed EXCEPT !.pc = "moving"]
                   ELSE Thrown(fixed, outcome)
    /\ UNCHANGED <<latest, fs, call, host, prev, gate, side>>

\* Lines 88-94: a file at dest is renamed to dest.old, after the file already
\* at dest.old has been deleted; either request can be rejected.
installRockide_moveAside ==
    /\ fixed.pc = "moving"
    /\ \E outcome \in {"ok", "delete rejected", "rename rejected"} :
          fixed' =
              IF fixed.dest = NoFile
              THEN [fixed EXCEPT !.pc = "writing"]
              ELSE IF outcome = "delete rejected" /\ fixed.old # NoFile
              THEN Thrown(fixed, "delete")
              ELSE IF outcome = "rename rejected"
              THEN Thrown([fixed EXCEPT !.old = NoFile], "rename")
              ELSE [fixed EXCEPT !.pc = "writing", !.old = fixed.dest, !.dest = NoFile]
    /\ UNCHANGED <<latest, fs, call, host, prev, gate, side>>

\* Lines 95-98: the executable is written and made executable.  A write that
\* is rejected leaves no file, or a file with part of the data.
installRockide_write ==
    /\ fixed.pc = "writing"
    /\ \E outcome \in {"ok", "rejected", "rejected midway"} :
          fixed' =
              IF outcome = "ok"
              THEN [fixed EXCEPT !.pc = "idle", !.dest = fixed.release,
                                 !.had = TRUE, !.last = "ok"]
              ELSE IF outcome = "rejected"
              THEN Thrown(fixed, "write")
              ELSE Thrown([fixed EXCEPT !.dest = Truncated], "write")
    /\ UNCHANGED <<latest, fs, call, host, prev, gate, side>>

NextFixed ==
    \/ fixed.pc = "idle" /\ Publish(NumTags)
    \/ installRockide_resolve
    \/ installRockide_download
    \/ installRockide_moveAside
    \/ installRockide_write

SpecFixed == Init /\ [][NextFixed]_vars

(***************************************************************************)
(* The update checks and their gates.                                       *)
(***************************************************************************)
Tick ==
    /\ gate.now < FirstActivation + MaxTicks * ClockStep
    /\ gate' = [gate EXCEPT !.now = @ + ClockStep]
    /\ UNCHANGED <<latest, fs, call, host, prev, fixed, side>>

\* checkForUpdatesInBackground, lines 149-168: nothing is done when
\* autoUpdate is off or the last check is less than 24 hours old; otherwise
\* the timestamp is written and the check begins.
checkForUpdatesInBackground_gate ==
    /\ gate.bg.pc = "idle"
    /\ \E autoUpdate \in BOOLEAN :
          LET now == gate.now
              lastCheck == gate.lastUpdateCheck
              bg == [NoCheck EXCEPT !.at = now, !.seen = lastCheck]
          IN  gate' =
                  IF ~autoUpdate
                  THEN [gate EXCEPT !.bg = [bg EXCEPT !.outcome = "disabled"]]
                  ELSE IF gated(now, lastCheck, twentyFourHours)
                  THEN [gate EXCEPT !.bg = [bg EXCEPT !.outcome = "skipped"]]
                  ELSE [gate EXCEPT !.lastUpdateCheck = now,
                                    !.bg = [bg EXCEPT !.pc = "checking",
                                                      !.stamped = TRUE]]
    /\ UNCHANGED <<latest, fs, call, host, prev, fixed, side>>

\* checkForUpdatesInBackground, lines 171-188, with installer.checkForUpdates:
\* the latest release is requested and compared with the current version.
checkForUpdatesInBackground_check ==
    /\ gate.bg.pc = "checking"
    /\ \E outcome \in {"update", "up to date", "failed"} :
          gate' = [gate EXCEPT !.bg.pc = "idle",
                               !.bg.net = @ + 1,
                               !.bg.outcome = outcome]
    /\ UNCHANGED <<latest, fs, call, host, prev, fixed, side>>

\* updateRockide(ctx, silent), lines 102-110: a silent call does nothing when
\* the last update is less than 12 hours old; otherwise the timestamp is
\* written and the versions are compared.
updateRockide_gate ==
    /\ gate.upd.pc = "idle"
    /\ \E silent \in BOOLEAN :
          LET now == gate.now
              lastUpdate == gate.lastUpdate
              upd == [NoCheck EXCEPT !.silent = silent, !.at = now, !.seen = lastUpdate]
          IN  gate' =
                  IF silent /\ gated(now, lastUpdate, UPDATE_CHECK_INTERVAL)
                  THEN [gate EXCEPT !.upd = [upd EXCEPT !.outcome = "skipped"]]
                  ELSE [gate EXCEPT !.lastUpdate = now,
                                    !.upd = [upd EXCEPT !.pc = "checking",
                                                        !.stamped = TRUE]]
    /\ UNCHANGED <<latest, fs, call, host, prev, fixed, side>>

\* updateRockide, lines 112-131: no installed executable or a development
\* build ends the call before the request; otherwise the latest release is
\* requested and compared.
updateRockide_check ==
    /\ gate.upd.pc = "checking"
    /\ \E outcome \in {"not installed", "dev build", "update", "up to date", "failed"} :
          gate' = [gate EXCEPT !.upd.pc = "idle",
                               !.upd.net = IF outcome \in {"not installed", "dev build"}
                                           THEN @ ELSE @ + 1,
                               !.upd.outcome = outcome]
    /\ UNCHANGED <<latest, fs, call, host, prev, fixed, side>>

NextGate ==
    \/ Tick
    \/ checkForUpdatesInBackground_gate
    \/ checkForUpdatesInBackground_check
    \/ updateRockide_gate
    \/ updateRockide_check

SpecGate == Init /\ [][NextGate]_vars

(***************************************************************************)
(* checkForUpdates(): the version in use against the latest release.        *)
(***************************************************************************)
CheckForUpdates ==
    /\ AllIdle
    /\ \E response \in Answers, customPath \in BOOLEAN :
          chk' = [response |-> response,
                  current |-> getCurrentVersion(fs, customPath),
                  release |-> IF response = "200" THEN latest ELSE NoTag,
                  result |-> checkForUpdates(fs, customPath, response)]
    /\ UNCHANGED <<latest, fs, call, host, prev, fixed, gate, xfer, act, calc, lsp, cmd>>

NextCheck ==
    \/ AllIdle /\ Publish(ConcTags)
    \/ Step(1)
    \/ CheckForUpdates

SpecCheck == Init /\ [][NextCheck]_vars

(***************************************************************************)
(* The update command: updateRockide of part_004, which installs only when  *)
(* checkForUpdates() is true, and updateRockide of extension.ts, which      *)
(* installs at once.  Both call install({forceReinstall: true}).            *)
(*   checked   the command asked checkForUpdates() and was answered true    *)
(*   valid     the versions with a valid binary when install was called     *)
(***************************************************************************)
ValidVersions(S) == {t \in Tags : verifyInstallation(S, t)}

\* part_004, lines 244-249: the command ends when no update is found;
\* extension.ts, lines 196-197: no question is asked.
updateCommand_check ==
    /\ AllIdle
    /\ cmd.pc = "idle"
    /\ \E checked \in BOOLEAN, response \in Answers, customPath \in BOOLEAN :
          /\ checked => checkForUpdates(fs, customPath, response) = "true"
          /\ cmd' = [NoCommand EXCEPT !.pc = "install", !.checked = checked]
    /\ UNCHANGED <<latest, fs, call, host, prev, fixed, gate, chk, xfer, act, calc, lsp>>

\* part_004, line 258, and extension.ts, line 197.
updateCommand_install ==
    /\ cmd.pc = "install"
    /\ call[1].pc = "idle"
    /\ call' = [call EXCEPT ![1] = [Idle EXCEPT !.pc = "resolving",
                                                !.forceReinstall = TRUE]]
    /\ cmd' = [cmd EXCEPT !.pc = "installing", !.valid = ValidVersions(fs)]
    /\ UNCHANGED <<latest, fs, host, prev, fixed, gate, chk, xfer, act, calc, lsp>>

\* The command has the path or null and returns.
updateCommand_return ==
    /\ cmd.pc = "installing"
    /\ call[1].pc = "done"
    /\ call' = [call EXCEPT ![1] = Idle]
    /\ cmd' = NoCommand
    /\ UNCHANGED <<latest, fs, host, prev, fixed, gate, chk, xfer, act, calc, lsp>>

StepUpdate(p) ==
    \/ ResolveRelease(p)
    \/ CleanVersionDir(p)
    \/ Download(p)
    \/ VerifyChecksum(p)
    \/ Extract(p)
    \/ Unstage(p)
    \/ Prune(p)
    \/ Validate(p)
    \/ Rollback(p)

NextUpdate ==
    \/ AllIdle /\ cmd.pc = "idle" /\ Publish(NumTags)
    \/ LockExe
    \/ UnlockExe
    \/ updateCommand_check
    \/ updateCommand_install
    \/ StepUpdate(1)
    \/ updateCommand_return

SpecUpdate == Init /\ [][NextUpdate]_vars

(***************************************************************************)
(* One transfer, chunk by chunk.                                            *)
(*   fn         Downloader.downloadWithProgress, or downloadAsset           *)
(*   cancelled  token.isCancellationRequested                               *)
(*   chunks     chunks received; late counts those received after the       *)
(*              cancellation was requested                                  *)
(*   archive    the file at destPath: absent, stale (left by an earlier     *)
(*              call; found is what the call met), or good (written by      *)
(*              this call)                                                  *)
(*   transport  the connection: open, closed by its end, or aborted         *)
(***************************************************************************)
\* The catch of downloadWithProgress: cleanup(destPath), then rethrow.
Caught(x, outcome) ==
    [Downloader_cleanup(x) EXCEPT !.pc = "done", !.outcome = outcome]

\* The top of the read loop: the token is tested before the next read.
LoopTop(x) ==
    IF x.cancelled THEN Caught(x, "cancelled") ELSE [x EXCEPT !.pc = "reading"]

BeginTransfer ==
    /\ xfer.pc = "idle"
    /\ \E fn \in {"downloadWithProgress", "downloadAsset"},
          checksumUrl \in BOOLEAN, archive \in {"absent", "stale"} :
          /\ fn = "downloadAsset" => ~checksumUrl /\ archive = "absent"
          /\ xfer' = [NoTransfer EXCEPT !.pc = "fetching", !.fn = fn,
                                        !.checksumUrl = checksumUrl,
                                        !.archive = archive, !.found = archive,
                                        !.transport = "open"]
    /\ UNCHANGED <<latest, fs, call, host, prev, fixed, gate, chk, act, calc, lsp, cmd>>

\* The user cancels the notification.  The listener of downloadWithProgress
\* throws inside the event emitter, which changes nothing for the transfer;
\* the listener of downloadAsset aborts the request.
CancelRequested ==
    /\ xfer.pc \notin {"idle", "done"}
    /\ ~xfer.cancelled
    /\ xfer' = [xfer EXCEPT !.cancelled = TRUE,
                            !.transport = IF xfer.fn = "downloadAsset" /\ @ = "open"
                                          THEN "aborted" ELSE @]
    /\ UNCHANGED <<latest, fs, call, host, prev, fixed, gate, chk, act, calc, lsp, cmd>>

\* downloadWithProgress: fetch(url) settles; the loop is entered.
Responded ==
    /\ xfer.pc = "fetching"
    /\ xfer.fn = "downloadWithProgress"
    /\ \E ok \in BOOLEAN :
          xfer' = IF ok THEN LoopTop(xfer)
                  ELSE Caught([xfer EXCEPT !.transport = "closed"], "failed")
    /\ UNCHANGED <<latest, fs, call, host, prev, fixed, gate, chk, act, calc, lsp, cmd>>

\* downloadWithProgress: reader.read() settles with a chunk, with the end of
\* the body, or with an error.
ReadSettled ==
    /\ xfer.pc = "reading"
    /\ \E read \in {"chunk", "done", "error"} :
          /\ read = "chunk" => xfer.chunks < MaxChunks
          /\ xfer' =
                IF read = "chunk"
                THEN LoopTop([xfer EXCEPT !.chunks = @ + 1,
                                          !.late = IF xfer.cancelled THEN @ + 1 ELSE @])
                ELSE IF read = "done"
                THEN [xfer EXCEPT !.pc = "writing", !.transport = "closed"]
                ELSE Caught([xfer EXCEPT !.transport = "closed"], "failed")
    /\ UNCHANGED <<latest, fs, call, host, prev, fixed, gate, chk, act, calc, lsp, cmd>>

\* downloadWithProgress: the buffer is written in one call.
Written ==
    /\ xfer.pc = "writing"
    /\ \E ok \in BOOLEAN :
          xfer' = IF ~ok THEN Caught(xfer, "failed")
                  ELSE IF xfer.checksumUrl
                  THEN [xfer EXCEPT !.pc = "verifying", !.archive = "good"]
                  ELSE [xfer EXCEPT !.pc = "done", !.archive = "good", !.outcome = "ok"]
    /\ UNCHANGED <<latest, fs, call, host, prev, fixed, gate, chk, act, calc, lsp, cmd>>

\* downloadWithProgress of rockide.ts, lines 225-231.
Verified ==
    /\ xfer.pc = "verifying"
    /\ \E isValid \in BOOLEAN :
          xfer' = IF isValid THEN [xfer EXCEPT !.pc = "done", !.outcome = "ok"]
                  ELSE Caught(xfer, "checksum")
    /\ UNCHANGED <<latest, fs, call, host, prev, fixed, gate, chk, act, calc, lsp, cmd>>

\* downloadAsset: fetch with the signal of the AbortController, then the
\* body through the TransformStream; an aborted request rejects.
AssetSettled ==
    /\ xfer.pc \in {"fetching", "reading"}
    /\ xfer.fn = "downloadAsset"
    /\ \E event \in {"ok", "chunk", "done", "error"} :
          /\ event = "ok" => xfer.pc = "fetching"
          /\ event \in {"chunk", "done"} => xfer.pc = "reading"
          /\ event = "chunk" => xfer.chunks < MaxChunks
          /\ xfer' =
                IF xfer.transport = "aborted"
                THEN [xfer EXCEPT !.pc = "done", !.outcome = "aborted"]
                ELSE IF event = "ok" THEN [xfer EXCEPT !.pc = "reading"]
                ELSE IF event = "chunk" THEN [xfer EXCEPT !.chunks = @ + 1]
                ELSE IF event = "done"
                THEN [xfer EXCEPT !.pc = "done", !.transport = "closed",
                                  !.outcome = "ok"]
                ELSE [xfer EXCEPT !.pc = "done", !.transport = "closed",
                                  !.outcome = "failed"]
    /\ UNCHANGED <<latest, fs, call, host, prev, fixed, gate, chk, act, calc, lsp, cmd>>

NextTransfer ==
    \/ BeginTransfer
    \/ CancelRequested
    \/ Responded
    \/ ReadSettled
    \/ Written
    \/ Verified
    \/ AssetSettled

SpecTransfer == Init /\ [][NextTransfer]_vars

(***************************************************************************)
(* activate(): the language server is started on the path that              *)
(* ensureRockideBinary resolves.  The repository holds two versions of      *)
(* activate: one awaits ensureRockideBinary directly, the other races it    *)
(* against a timer.                                                          *)
(*   entry       which version runs: "raced" or "awaited"                   *)
(*   elapsed     milliseconds since ensureRockideBinary was called          *)
(*   resolution  ensureRockideBinary: pending, or how it settled            *)
(*   stage       the await that ensureRockideBinary is at                   *)
(*   background  checkForUpdatesInBackground was started                    *)
(*   binaryPath  the value activate() went on with                          *)
(***************************************************************************)
WaitStep == 10 * 1000

\* The rest of activate() once binaryPath is known: the server is started
\* only on a path.
Proceed(a, binaryPath) ==
    [a EXCEPT !.pc = "activated", !.binaryPath = binaryPath,
              !.server = binaryPath = "path",
              !.timer = IF @ = "armed" THEN "cleared" ELSE @]

Activate ==
    /\ act.pc = "idle"
    /\ \E entry \in {"raced", "awaited"}, isMinecraft \in BOOLEAN :
          act' = IF ~isMinecraft \/ ~getPlatformInfo(host)
                 THEN [NotActivated EXCEPT !.pc = "activated", !.entry = entry]
                 ELSE [NotActivated EXCEPT !.pc = "waiting", !.entry = entry,
                                           !.resolution = "pending",
                                           !.stage = "active",
                                           !.timer = IF entry = "raced"
                                                     THEN "armed" ELSE "unset"]
    /\ UNCHANGED <<latest, fs, call, host, prev, fixed, gate, chk, xfer, calc, lsp, cmd>>

\* Time passes while ensureRockideBinary is pending; a timer that is due
\* fires before more time passes.
Elapse ==
    /\ act.resolution = "pending"
    /\ act.elapsed < MaxWait * WaitStep
    /\ ~(act.timer = "armed" /\ act.elapsed >= Deadline)
    /\ act' = [act EXCEPT !.elapsed = @ + WaitStep]
    /\ UNCHANGED <<latest, fs, call, host, prev, fixed, gate, chk, xfer, calc, lsp, cmd>>

\* The callback of setTimeout: the race settles with null.
TimerFires ==
    /\ act.timer = "armed"
    /\ act.elapsed >= Deadline
    /\ act' = [Proceed([act EXCEPT !.timer = "fired"], "null") EXCEPT !.timedOut = TRUE]
    /\ UNCHANGED <<latest, fs, call, host, prev, fixed, gate, chk, xfer, calc, lsp, cmd>>

\* ensureRockideBinary settles: with a path, with null, or with an exception
\* (caught by activate, which then starts no server).  After the timer has
\* fired nobody reads the value.
Settle(a, resolution) ==
    IF a.pc = "waiting"
    THEN [Proceed(a, IF resolution = "path" THEN "path" ELSE "null")
             EXCEPT !.resolution = resolution, !.stage = "none"]
    ELSE [a EXCEPT !.resolution = resolution, !.stage = "none"]

\* ensureRockideBinary, lines 119-131: the configured path or the active
\* binary is returned when it exists; otherwise install() is called.
ActiveBinaryLooked ==
    /\ act.stage = "active"
    /\ \E found \in {"path", "none", "thrown"}, checkEnabled \in BOOLEAN :
          act' = IF found = "none" THEN [act EXCEPT !.stage = "install"]
                 ELSE Settle([act EXCEPT !.background = found = "path" /\ checkEnabled],
                             found)
    /\ UNCHANGED <<latest, fs, call, host, prev, fixed, gate, chk, xfer, calc, lsp, cmd>>

\* ensureRockideBinary, lines 139-146: install() returned.
InstallReturned ==
    /\ act.stage = "install"
    /\ \E binaryPath \in {"path", "null", "thrown"} :
          act' = IF binaryPath = "null" THEN [act EXCEPT !.stage = "lookup"]
                 ELSE Settle(act, binaryPath)
    /\ UNCHANGED <<latest, fs, call, host, prev, fixed, gate, chk, xfer, calc, lsp, cmd>>

\* ensureRockideBinary, lines 146-156: findRockideInPath() returned.
PathLooked ==
    /\ act.stage = "lookup"
    /\ \E binaryPath \in {"path", "null"} : act' = Settle(act, binaryPath)
    /\ UNCHANGED <<latest, fs, call, host, prev, fixed, gate, chk, xfer, calc, lsp, cmd>>

\* deactivate(), then the next activation.
Deactivate ==
    /\ act.pc = "activated"
    /\ act.resolution # "pending"
    /\ act' = NotActivated
    /\ UNCHANGED <<latest, fs, call, host, prev, fixed, gate, chk, xfer, calc, lsp, cmd>>

NextActivate ==
    \/ Activate
    \/ Elapse
    \/ TimerFires
    \/ ActiveBinaryLooked
    \/ InstallReturned
    \/ PathLooked
    \/ Deactivate

SpecActivate == Init /\ [][NextActivate]_vars

(***************************************************************************)
(* The language client, lsp.ts, and the update that restarts it.           *)
(*   current     the module variable: a client, or NoTag for null           *)
(*   status      of each LanguageClient ever constructed                    *)
(*   last        how the last startClient call began                        *)
(*   upd         one updateRockide call past its prompt                     *)
(***************************************************************************)
Constructed(L) == {c \in Clients : L.status[c] # "none"}

\* startClient up to its await, lines 8-29: rejected when current is set;
\* otherwise a client is constructed, assigned to current and asked to start.
startClient(L) ==
    IF L.current # NoTag
    THEN [L EXCEPT !.last = "rejected"]
    ELSE LET client == Cardinality(Constructed(L)) + 1
         IN  [L EXCEPT !.current = client,
                       !.status[client] = "starting",
                       !.last = "accepted"]

\* stopClient up to its first await, lines 33-39: current is cleared before
\* the client is asked to stop.
stopClient(L) ==
    IF L.current = NoTag THEN L
    ELSE [L EXCEPT !.current = NoTag,
                   !.status[L.current] =
                       IF @ \in {"starting", "running"} THEN "stopping" ELSE @]

\* stopClient has returned or thrown for this client.
Stopped(L, client) ==
    IF client = NoTag THEN TRUE
    ELSE L.status[client] \in {"disposed", "failed", "stop failed"}

StartClient ==
    /\ Cardinality(Constructed(lsp)) < MaxClients \/ lsp.current # NoTag
    /\ lsp' = startClient(lsp)
    /\ lsp' # lsp
    /\ UNCHANGED <<latest, fs, call, host, prev, fixed, gate, chk, xfer, act, calc, cmd>>

\* Line 29: client.start() resolves or rejects; current is not touched.
StartSettled ==
    /\ \E client \in Clients, ok \in BOOLEAN :
          /\ lsp.status[client] = "starting"
          /\ lsp' = [lsp EXCEPT !.status[client] = IF ok THEN "running" ELSE "failed"]
    /\ UNCHANGED <<latest, fs, call, host, prev, fixed, gate, chk, xfer, act, calc, cmd>>

StopClient ==
    /\ lsp.current # NoTag
    /\ lsp' = stopClient(lsp)
    /\ UNCHANGED <<latest, fs, call, host, prev, fixed, gate, chk, xfer, act, calc, cmd>>

\* Line 39: client.stop() resolves, and dispose is called, or rejects.
StopSettled ==
    /\ \E client \in Clients, ok \in BOOLEAN :
          /\ lsp.status[client] = "stopping"
          /\ lsp' = [lsp EXCEPT !.status[client] =
                                    IF ok THEN "disposing" ELSE "stop failed"]
    /\ UNCHANGED <<latest, fs, call, host, prev, fixed, gate, chk, xfer, act, calc, cmd>>

\* Line 41: the child process has exited.
DisposeSettled ==
    /\ \E client \in Clients :
          /\ lsp.status[client] = "disposing"
          /\ lsp' = [lsp EXCEPT !.status[client] = "disposed"]
    /\ UNCHANGED <<latest, fs, call, host, prev, fixed, gate, chk, xfer, act, calc, cmd>>

\* updateRockide, rockide.ts lines 133-142: the user chose Update, and
\* stopClient runs up to its first await.
updateRockide_stop ==
    /\ lsp.upd.pc = "idle"
    /\ lsp' = [stopClient(lsp) EXCEPT
                  !.upd = [NoUpdate EXCEPT
                              !.pc = "stopping",
                              !.client = lsp.current,
                              !.was = /\ lsp.current # NoTag
                                      /\ lsp.status[lsp.current] = "running"]]
    /\ UNCHANGED <<latest, fs, call, host, prev, fixed, gate, chk, xfer, act, calc, cmd>>

\* Line 143: stopClient has returned and installRockide begins, or stopClient
\* has thrown and so has updateRockide.
updateRockide_install ==
    /\ lsp.upd.pc = "stopping"
    /\ Stopped(lsp, lsp.upd.client)
    /\ lsp' = [lsp EXCEPT !.upd.pc =
                  IF lsp.upd.client # NoTag /\ lsp.status[lsp.upd.client] = "stop failed"
                  THEN "done" ELSE "installing"]
    /\ UNCHANGED <<latest, fs, call, host, prev, fixed, gate, chk, xfer, act, calc, cmd>>

\* Lines 143-144: installRockide returns and startClient runs up to its await,
\* or installRockide throws and updateRockide ends there.
updateRockide_start ==
    /\ lsp.upd.pc = "installing"
    /\ Cardinality(Constructed(lsp)) < MaxClients \/ lsp.current # NoTag
    /\ \E installed \in BOOLEAN :
          lsp' = IF ~installed
                 THEN [lsp EXCEPT !.upd.pc = "done", !.upd.install = "thrown"]
                 ELSE LET L == startClient(lsp)
                      IN  [L EXCEPT !.upd.install = "ok",
                                    !.upd.client = L.current,
                                    !.upd.pc = IF L.last = "rejected"
                                               THEN "done" ELSE "starting",
                                    !.upd.restart = L.last]
    /\ UNCHANGED <<latest, fs, call, host, prev, fixed, gate, chk, xfer, act, calc, cmd>>

\* Line 144: the await of startClient ends.
updateRockide_started ==
    /\ lsp.upd.pc = "starting"
    /\ lsp.status[lsp.upd.client] # "starting"
    /\ lsp' = [lsp EXCEPT !.upd.pc = "done",
                          !.upd.restart = IF lsp.status[lsp.upd.client] = "failed"
                                          THEN "failed" ELSE "started"]
    /\ UNCHANGED <<latest, fs, call, host, prev, fixed, gate, chk, xfer, act, calc, cmd>>

\* The command has returned; it can be run again.
updateRockide_return ==
    /\ lsp.upd.pc = "done"
    /\ lsp' = [lsp EXCEPT !.upd = NoUpdate]
    /\ UNCHANGED <<latest, fs, call, host, prev, fixed, gate, chk, xfer, act, calc, cmd>>

NextClient ==
    \/ StartClient
    \/ StartSettled
    \/ StopClient
    \/ StopSettled
    \/ DisposeSettled
    \/ updateRockide_stop
    \/ updateRockide_install
    \/ updateRockide_start
    \/ updateRockide_started
    \/ updateRockide_return

SpecClient == Init /\ [][NextClient]_vars

(***************************************************************************)
(* Functions that keep no state.  calc holds the arguments of one call and, *)
(* once the call is done, its value.                                        *)
(***************************************************************************)
\* All sequences over S of length at most n.
SeqsUpTo(S, n) == UNION {[1 .. k -> S] : k \in 0 .. n}

\* Tags as GitHub stores them and versions as a caller writes them.
TagNames == {"1.2.3", "v1.2.3", "vv1.2.3", "1.2.4"}

Versions == {"1.2.3", "v1.2.3", "1.2.4"}

\* releases.find(...) || null, line 80: the first release whose tag is the
\* version or the version with a "v" in front.
RECURSIVE getRelease_find(_, _)
getRelease_find(releases, version) ==
    IF releases = <<>> THEN "null"
    ELSE IF Head(releases) = version \/ Head(releases) = "v" \o version
    THEN Head(releases)
    ELSE getRelease_find(Tail(releases), version)

GetReleaseInputs ==
    {[op |-> "getRelease", done |-> FALSE, releases |-> releases,
      version |-> version, ok |-> ok, value |-> "null"] :
        releases \in SeqsUpTo(TagNames, MaxCatalog), version \in Versions,
        ok \in BOOLEAN}

\* getRelease(version), lines 77-85: getAllReleases throws when the response
\* is not ok, and getRelease rethrows.
GetRelease ==
    /\ calc.op = "getRelease"
    /\ ~calc.done
    /\ calc' = [calc EXCEPT !.done = TRUE,
                            !.value = IF calc.ok
                                      THEN getRelease_find(calc.releases, calc.version)
                                      ELSE "thrown"]
    /\ UNCHANGED <<latest, fs, call, host, prev, fixed, gate, chk, xfer, act, lsp, cmd>>

\* The comparison made on the strings as they are.
verifyFileHash_caseSensitive(content, expectedHash) ==
    IF content = "unreadable" THEN FALSE
    ELSE calculateFileHash(content) = expectedHash

\* verifyFileHash, lines 37-45: readFile throws on a file that cannot be
\* read, and the catch returns false.
verifyFileHash(content, expectedHash) ==
    IF content = "unreadable" THEN FALSE
    ELSE toLowerCase(calculateFileHash(content)) = toLowerCase(expectedHash)

\* Expected values: digests in either case, one with a trailing blank, none.
ExpectedHashes == {"0a", "0A", "1b", "1B", "3D", "0a ", ""}

VerifyFileHashInputs ==
    {[op |-> "verifyFileHash", done |-> FALSE, file |-> content,
      expectedHash |-> expectedHash, value |-> FALSE] :
        content \in ArchiveKinds \cup {"unreadable"}, expectedHash \in ExpectedHashes}

VerifyFileHash ==
    /\ calc.op = "verifyFileHash"
    /\ ~calc.done
    /\ calc' = [calc EXCEPT !.done = TRUE,
                            !.value = verifyFileHash(calc.file, calc.expectedHash)]
    /\ UNCHANGED <<latest, fs, call, host, prev, fixed, gate, chk, xfer, act, lsp, cmd>>

\* A line of a checksum file, trimmed: len hex digits (digest names them when
\* there are 64), blanks or none (sep), an optional asterisk, a name.
ArchiveNames == {"rockide.tar.gz", "other.zip", "my file"}

Blank == [digest |-> "", len |-> 0, sep |-> FALSE, star |-> FALSE, name |-> ""]

\* The lines that are well formed, for either digest and either name, and
\* the lines for the archive that are malformed in one way: a digit missing
\* or added, no blank after the digest, a blank inside the name.
ChecksumLines ==
    {line \in [digest : {"0A", "1b"},
               len : {SHA256_HEX_LENGTH - 1, SHA256_HEX_LENGTH, SHA256_HEX_LENGTH + 1},
               sep : BOOLEAN, star : BOOLEAN, name : ArchiveNames] :
        \/ line.len = SHA256_HEX_LENGTH /\ line.sep /\ line.name # "my file"
        \/ /\ line.digest = "1b" /\ ~line.star
           /\ \/ line.len # SHA256_HEX_LENGTH /\ line.sep /\ line.name = "rockide.tar.gz"
              \/ line.len = SHA256_HEX_LENGTH /\ ~line.sep /\ line.name = "rockide.tar.gz"
              \/ line.len = SHA256_HEX_LENGTH /\ line.sep /\ line.name = "my file"}
        \cup {Blank}

\* /^([a-fA-F0-9]{64})\s+\*?(\S+)$/ on a trimmed line.
Matches(line) ==
    /\ line # Blank
    /\ line.len = SHA256_HEX_LENGTH
    /\ line.sep
    /\ line.name # "my file"

\* The lines searched from the end.
RECURSIVE parseChecksumFile_lastMatch(_, _)
parseChecksumFile_lastMatch(content, filename) ==
    IF content = <<>> THEN "null"
    ELSE LET line == content[Len(content)]
         IN  IF Matches(line) /\ line.name = filename
             THEN toLowerCase(line.digest)
             ELSE parseChecksumFile_lastMatch(SubSeq(content, 1, Len(content) - 1),
                                              filename)

\* parseChecksumFile, lines 21-35.
RECURSIVE parseChecksumFile(_, _)
parseChecksumFile(content, filename) ==
    IF content = <<>> THEN "null"
    ELSE LET line == Head(content)
         IN  IF line = Blank THEN parseChecksumFile(Tail(content), filename)
             ELSE IF Matches(line) /\ line.name = filename
             THEN toLowerCase(line.digest)
             ELSE parseChecksumFile(Tail(content), filename)

ParseChecksumFileInputs ==
    {[op |-> "parseChecksumFile", done |-> FALSE, lines |-> content,
      filename |-> filename, value |-> "null"] :
        content \in SeqsUpTo(ChecksumLines, MaxLines),
        filename \in {"rockide.tar.gz", "other.zip"}}

ParseChecksumFile ==
    /\ calc.op = "parseChecksumFile"
    /\ ~calc.done
    /\ calc' = [calc EXCEPT !.done = TRUE,
                            !.value = parseChecksumFile(calc.lines, calc.filename)]
    /\ UNCHANGED <<latest, fs, call, host, prev, fixed, gate, chk, xfer, act, lsp, cmd>>

\* An entry of a directory: a file with the error that unlink meets (none,
\* a lock, another error) or that stat meets, or a directory with its files.
LockCodes == {"EBUSY", "EPERM", "EACCES"}

FileEntries ==
    {[dir |-> FALSE, error |-> error, files |-> <<>>] :
        error \in {"none", "EIO", "stat"} \cup LockCodes}

DirEntries ==
    {[dir |-> TRUE, error |-> "none", files |-> files] :
        files \in SeqsUpTo(FileEntries, 1)}

\* The loop of lines 246-265 over the entries that readdir returned: what
\* is left in the directory, and whether an error left the loop.
RECURSIVE cleanup_loop(_)
cleanup_loop(files) ==
    IF files = <<>> THEN [left |-> <<>>, thrown |-> FALSE]
    ELSE LET file == Head(files)
             after == cleanup_loop(Tail(files))
             inner == cleanup_loop(file.files)
         IN  IF file.error = "stat" THEN [left |-> files, thrown |-> TRUE]
             ELSE IF file.dir
             THEN IF ~inner.thrown /\ inner.left = <<>> THEN after
                  ELSE [left |-> <<[file EXCEPT !.files = inner.left]>> \o after.left,
                        thrown |-> after.thrown]
             ELSE IF file.error = "none" THEN after
             ELSE IF file.error \in LockCodes
             THEN [left |-> <<file>> \o after.left, thrown |-> after.thrown]
             ELSE [left |-> files, thrown |-> TRUE]

\* The outer try without its catch: an error that leaves the loop, or that
\* rmdir meets, reaches the caller.
cleanup_path_uncaught(exists, files, rmdirError) ==
    LET walk == cleanup_loop(files)
    IN  IF ~exists THEN [exists |-> FALSE, left |-> <<>>, raised |-> FALSE]
        ELSE IF walk.thrown THEN [exists |-> TRUE, left |-> walk.left, raised |-> TRUE]
        ELSE IF walk.left # <<>>
        THEN [exists |-> TRUE, left |-> walk.left, raised |-> FALSE]
        ELSE IF rmdirError = "none"
        THEN [exists |-> FALSE, left |-> <<>>, raised |-> FALSE]
        ELSE [exists |-> TRUE, left |-> <<>>, raised |-> TRUE]

\* RockideInstaller.cleanup(dirPath), lines 238-280: nothing on a missing
\* path; rmdir fails with ENOTEMPTY when a file is left, which is only
\* logged, and every other error is caught at line 277.
cleanup_path(exists, files, rmdirError) ==
    LET walk == cleanup_loop(files)
    IN  IF ~exists THEN [exists |-> FALSE, left |-> <<>>, raised |-> FALSE]
        ELSE IF walk.thrown THEN [exists |-> TRUE, left |-> walk.left, raised |-> FALSE]
        ELSE IF walk.left # <<>>
        THEN [exists |-> TRUE, left |-> walk.left, raised |-> FALSE]
        ELSE IF rmdirError = "none"
        THEN [exists |-> FALSE, left |-> <<>>, raised |-> FALSE]
        ELSE [exists |-> TRUE, left |-> <<>>, raised |-> FALSE]

CleanupInputs ==
    {[op |-> "cleanup", done |-> FALSE, exists |-> exists, entries |-> entries,
      rmdirError |-> rmdirError,
      value |-> [exists |-> exists, left |-> entries, raised |-> FALSE]] :
        exists \in BOOLEAN,
        entries \in SeqsUpTo(FileEntries \cup DirEntries, MaxEntries),
        rmdirError \in {"none", "EPERM"}}

Cleanup ==
    /\ calc.op = "cleanup"
    /\ ~calc.done
    /\ calc' = [calc EXCEPT !.done = TRUE,
                            !.value = cleanup_path(calc.exists, calc.entries,
                                                   calc.rmdirError)]
    /\ UNCHANGED <<latest, fs, call, host, prev, fixed, gate, chk, xfer, act, lsp, cmd>>

\* Extractor.extractTarGz(archivePath, destDir), lines 13-35.  mkdir runs
\* before the try; tar runs once, and on Windows a second time through
\* PowerShell when the first run failed; chmod is attempted on the other
\* platforms and its failure is only logged.  chmod fails on a path that tar
\* did not create (member: the archive holds the executable).
Extractor_extractTarGz(isWindows, mkdir, tar, powershell, member, chmod) ==
    LET unpacked == tar = "ok" \/ (isWindows /\ powershell = "ok")
    IN  IF mkdir \notin {"ok", "EEXIST"}
        THEN [outcome |-> "mkdir error", binary |-> FALSE, mode |-> "none"]
        ELSE IF ~unpacked
        THEN [outcome |-> "Failed to extract archive", binary |-> FALSE,
              mode |-> "none"]
        ELSE [outcome |-> "path", binary |-> member,
              mode |-> IF ~member THEN "none"
                       ELSE IF ~isWindows /\ chmod = "ok" THEN "0755"
                       ELSE "as unpacked"]

ExtractTarGzInputs ==
    {[op |-> "extractTarGz", done |-> FALSE, isWindows |-> isWindows,
      mkdir |-> mkdir, tar |-> tar, powershell |-> powershell,
      member |-> member, chmod |-> chmod,
      value |-> [outcome |-> "none", binary |-> FALSE, mode |-> "none"]] :
        isWindows \in BOOLEAN, mkdir \in {"ok", "EEXIST", "EACCES"},
        tar \in {"ok", "failed"}, powershell \in {"ok", "failed"},
        member \in BOOLEAN, chmod \in {"ok", "EPERM"}}

ExtractTarGz ==
    /\ calc.op = "extractTarGz"
    /\ ~calc.done
    /\ calc' = [calc EXCEPT !.done = TRUE,
                            !.value = Extractor_extractTarGz(
                                          calc.isWindows, calc.mkdir, calc.tar,
                                          calc.powershell, calc.member, calc.chmod)]
    /\ UNCHANGED <<latest, fs, call, host, prev, fixed, gate, chk, xfer, act, lsp, cmd>>

CalcInputs ==
    GetReleaseInputs \cup VerifyFileHashInputs \cup ParseChecksumFileInputs
        \cup CleanupInputs \cup ExtractTarGzInputs

InitCalc == InitProgram /\ host = "supported" /\ calc \in CalcInputs

NextCalc ==
    \/ GetRelease
    \/ VerifyFileHash
    \/ ParseChecksumFile
    \/ Cleanup
    \/ ExtractTarGz

SpecCalc == InitCalc /\ [][NextCalc]_vars

\* Invocations of install() that overlap: the activation-time install and the
\* rockide.update and rockide.selectVersion commands call install() on the
\* same installer without waiting for one another.
NextConc ==
    \/ Publish(ConcTags)
    \/ \E p \in Slots : Step(p)

SpecConc == Init /\ [][NextConc]_vars

(***************************************************************************)
(* Properties.                                                              *)
(***************************************************************************)
Done(p) == call[p].pc = "done"

Succeeded(p) == Done(p) /\ call[p].result \in {"installed", "existing"}

DownloadErrors == {"failed", "cancelled", "checksum", "extract"}

\* An invocation that has its release and is working on binaries/<tag> and
\* on the staged archive.
Installing(p) == InFlight(p) /\ call[p].pc # "resolving"

\* C1: at most one install() is in flight on an installer at any time: a
\* second request is rejected or waits until the first has returned, so no two
\* invocations work on the version directories and the staged archive at once.
OneInstallInFlight == Cardinality({p \in Slots : Installing(p)}) <= 1

\* C2: pruning runs only once the newly extracted binary has been confirmed
\* valid: an install whose binary fails validation has deleted no other
\* version directory when it returns.
InvalidInstallPrunesNothing ==
    \A p \in Slots : Done(p) /\ call[p].error = "invalid" => call[p].pruned = {}

\* C3: when the extracted binary is missing or smaller than MinBinarySize,
\* install() returns null and binaries/<tag> is gone when it returns.
InvalidBinaryDirRemoved ==
    \A p \in Slots :
        Done(p) /\ call[p].error = "invalid" =>
            call[p].result = "null" /\ ~isDirectory(fs, call[p].tag)

\* C4: a managed path returned by install(), by a fresh install or by the
\* already-installed short-circuit, is the path of a binary that passes
\* validation; the leftovers of a failed attempt are never returned.
ReturnedPathIsValid ==
    \A p \in Slots : Succeeded(p) => verifyInstallation(fs, call[p].tag)

PruneKeepsNewest ==
    \A p \in Slots :
        call[p].listed # <<>> =>
            LET listed == call[p].listed
                kept == {listed[i] : i \in {j \in 1 .. Len(listed) : j <= maxVersions}}
            IN  /\ listed[1] = call[p].tag
                /\ call[p].pruned \cap kept = {}
                /\ call[p].tag \notin call[p].pruned
                /\ kept \subseteq Dirs(fs)
                /\ getActiveBinaryPath(fs, FALSE) \notin call[p].pruned

\* C6 witness: a forced reinstall of an installed tag pruned an older version.
ReinstallPruned ==
    \E p \in Slots :
        /\ Done(p) /\ call[p].result = "installed"
        /\ call[p].forceReinstall
        /\ call[p].pruned # {}

VerificationBestEffort ==
    \A p \in Slots :
        /\ call[p].checksum # "none" => call[p].checksumUrl
        /\ call[p].error = "checksum" => call[p].checksum = "mismatch"
        /\ Done(p) /\ call[p].checksum = "mismatch" => call[p].result = "null"

\* C8, amended: verification runs exactly when the release lists a checksum
\* asset; a release without one never fails for that reason; when it runs, the
\* install fails unless the manifest was fetched, names the archive and gives
\* the digest of the downloaded file.
VerificationFailsClosed ==
    \A p \in Slots :
        /\ call[p].checksum # "none" => call[p].checksumUrl
        /\ call[p].error = "checksum" =>
               call[p].checksumUrl
                   /\ call[p].checksum \in {"mismatch", "unavailable", "noentry"}
        /\ Done(p) /\ call[p].checksum \in {"mismatch", "unavailable", "noentry"} =>
               call[p].result = "null" /\ call[p].error = "checksum"
        /\ call[p].unpacked =>
               call[p].checksum = (IF call[p].checksumUrl THEN "match" ELSE "none")

\* C8 witness: an install failed because the listed manifest could not be fetched.
ManifestUnavailableFails ==
    \E p \in Slots :
        Done(p) /\ call[p].checksum = "unavailable" /\ call[p].result = "null"

StagingIsTransient ==
    \A p \in Slots : Done(p) => fs.archive = "absent"


\* C11, as claimed: an install() that returns the path of the version already
\* on disk has performed no network I/O at all.
ShortCircuitWithoutNetwork ==
    \A p \in Slots :
        Done(p) /\ call[p].result = "existing" => call[p].net = {}

\* C11, amended: an install() that returns the path of the version already on
\* disk was not forced, has sent the release lookup and no other request, has
\* changed nothing under binaries/, and the executable it names exists; an
\* unforced install() that goes on to clean the version directory found no
\* executable in it.
ShortCircuitOnlyLooksUp ==
    \A p \in Slots :
        /\ Done(p) /\ call[p].result = "existing" =>
               /\ ~call[p].forceReinstall
               /\ call[p].net = {"release"}
               /\ ~call[p].wrote
               /\ fs.exe[call[p].tag] # NoFile
        /\ call[p].pc = "cleaning" /\ ~call[p].forceReinstall =>
               fs.exe[call[p].tag] = NoFile

\* C11 witness: an unforced install() of an installed version returned its path.
ExistingPathReturned ==
    \E p \in Slots :
        /\ Done(p) /\ call[p].result = "existing"
        /\ call[p].net = {"release"}
        /\ verifyInstallation(fs, call[p].tag)

\* C12, as claimed: when install({version: V}) has downloaded and installed V
\* and is called again at once without forceReinstall, the second call
\* returns the same path, transfers nothing and changes nothing under
\* binaries/, so that the two calls make one asset download in total.
InstallIdempotent ==
    \A p \in Slots :
        prev.pc = "done" /\ prev.result = "installed" =>
            /\ "asset" \in prev.net
            /\ call[p].net \cap {"asset", "checksums"} = {}
            /\ ~call[p].wrote
            /\ Done(p) => call[p].result = "existing" /\ call[p].tag = prev.tag

\* C12, amended: the same, for a second call whose release lookup succeeds;
\* when the lookup fails the second call returns null, again without any
\* transfer and without a change under binaries/.
InstallIdempotentWhenResolved ==
    \A p \in Slots :
        prev.pc = "done" /\ prev.result = "installed" =>
            /\ "asset" \in prev.net
            /\ call[p].net \cap {"asset", "checksums"} = {}
            /\ ~call[p].wrote
            /\ call[p].pc \in {"idle", "resolving", "done"}
            /\ Done(p) =>
                   \/ call[p].result = "existing" /\ call[p].tag = prev.tag
                   \/ call[p].result = "null" /\ call[p].error = "release"

\* C12 witness: the second of two calls returned the path the first installed.
SecondCallReturnedSamePath ==
    \E p \in Slots :
        /\ prev.pc = "done" /\ prev.result = "installed"
        /\ Done(p) /\ call[p].result = "existing" /\ call[p].tag = prev.tag
        /\ call[p].net = {"release"}

InstallReturnsPathOrNull ==
    \A p \in Slots :
        Done(p) =>
            /\ call[p].result \in {"custom", "existing", "installed", "null"}
            /\ call[p].error # "none" <=> call[p].result = "null"

\* C15: the outcome of pruning never affects the result: an install() that has
\* downloaded and extracted the version, and whose binary passes validation,
\* returns its path whatever happened while old versions were listed and
\* deleted.
PruningNeverChangesResult ==
    \A p \in Slots :
        Done(p) /\ call[p].unpacked /\ call[p].error \notin DownloadErrors
                /\ verifyInstallation(fs, call[p].tag) =>
            call[p].result = "installed"

\* C16: with no usable override and no install in flight, getActiveBinaryPath
\* returns null when there is no version directory, and otherwise the path
\* of the executable of the most recently modified version directory only if
\* that file exists.
ActiveBinaryExists ==
    (\A p \in Slots : ~InFlight(p)) =>
        /\ Dirs(fs) = {} => getActiveBinaryPath(fs, FALSE) = NoTag
        /\ getActiveBinaryPath(fs, FALSE) # NoTag =>
               fs.exe[getActiveBinaryPath(fs, FALSE)] # NoFile

\* C17: the override always wins: when rockide.binaryPath is configured and
\* exists, getActiveBinaryPath resolves to it, and install() returns it at
\* once, whatever the version store holds and whatever options it was given:
\* it never goes on to look up a release.
OverrideAlwaysWins ==
    /\ getActiveBinaryPath(fs, TRUE) = CustomPath
    /\ \A p \in Slots :
           call[p].customPath => call[p].pc = "done" /\ call[p].result = "custom"

\* C18: getInstalledBinaryPath(tag) gives a path exactly when the executable
\* exists in binaries/<tag>/: an unforced install() whose release resolved to
\* tag returns the installed path if and only if that file is there, and a
\* version directory without the executable is treated as not installed.
InstalledIffExecutable ==
    [][\A p \in Slots :
          /\ call[p].pc = "resolving" /\ call'[p].pc # "resolving"
          /\ call'[p].tag # NoTag /\ call'[p].result # "thrown"
          /\ ~call[p].forceReinstall
          => (call'[p].result = "existing" <=> fs.exe[call'[p].tag] # NoFile)]_vars

\* C18 witness: an unforced install() found the version directory without the
\* executable and went on to install the version again.
DirWithoutExeNotInstalled ==
    \E p \in Slots :
        /\ call[p].pc = "cleaning" /\ ~call[p].forceReinstall
        /\ isDirectory(fs, call[p].tag)
        /\ fs.exe[call[p].tag] = NoFile

\* C19: a file at the destination is renamed to <dest>.old before the new
\* one is written, the file a successful call superseded is still at
\* <dest>.old when it returns, and once a complete executable has been
\* installed there is always one at <dest> or at <dest>.old, whatever writes
\* were rejected since.
WorkingBinaryNeverDestroyed ==
    /\ fixed.pc = "writing" =>
           fixed.dest = NoFile /\ (fixed.before # NoFile => fixed.old = fixed.before)
    /\ fixed.pc = "idle" /\ fixed.last = "ok" /\ fixed.before # NoFile =>
           fixed.old = fixed.before
    /\ fixed.had => Working(fixed.dest) \/ Working(fixed.old)

\* C20: a background update check invoked less than 24 hours after the
\* recorded timestamp, and a silent updateRockide invoked less than 12 hours
\* after its recorded timestamp, ends at once: it reports no update, sends no
\* request and does not write the timestamp.
UpdateCheckGated ==
    /\ gate.bg.outcome # "none" /\ gate.bg.at - gate.bg.seen < 24 * 3600000 =>
           /\ gate.bg.pc = "idle"
           /\ gate.bg.outcome \in {"skipped", "disabled"}
           /\ gate.bg.net = 0
           /\ ~gate.bg.stamped
    /\ gate.upd.silent /\ gate.upd.at - gate.upd.seen < 12 * 3600000 =>
           /\ gate.upd.pc = "idle"
           /\ gate.upd.outcome = "skipped"
           /\ gate.upd.net = 0
           /\ ~gate.upd.stamped

\* C20 witness: each check was invoked after an earlier one, inside its
\* interval, and was skipped with the timestamp of the earlier one in place.
SkippedInsideInterval ==
    /\ gate.bg.outcome = "skipped" /\ gate.bg.seen > 0
    /\ gate.bg.at > gate.bg.seen
    /\ gate.lastUpdateCheck = gate.bg.seen
    /\ gate.upd.outcome = "skipped" /\ gate.upd.seen > 0
    /\ gate.upd.at > gate.upd.seen
    /\ gate.lastUpdate = gate.upd.seen
\* C21: checkForUpdates() always returns a boolean; it returns false when the
\* request for the latest release failed or found no release and when no
\* version is in use, and otherwise true exactly when the tag of the latest
\* release is not the tag of the version in use.
UpdateCheckNeverPropagates ==
    chk.result # "none" =>
        /\ chk.result \in {"true", "false"}
        /\ (chk.response # "200" \/ chk.current = NoTag => chk.result = "false")
        /\ (chk.response = "200" /\ chk.current # NoTag =>
               (chk.result = "true" <=> chk.release # chk.current))

\* A comparison whose request failed while a version was in use.
SourceFailureGivesFalse ==
    /\ chk.response \in {"500", "network"}
    /\ chk.current # NoTag
    /\ chk.result = "false"

\* C25: getLatestRelease() returns null without throwing when the catalog
\* answers that there is no release, and throws on every other answer that is
\* not ok and when there is no answer; install() ends with null in both cases,
\* after the one request and without a change under binaries/.
AbsenceIsNotUnavailability ==
    /\ \A response \in Answers :
           LookupOf(getLatestRelease(response)) =
               CASE response = "200" -> "found"
                 [] response = "404" -> "null"
                 [] OTHER -> "raised"
    /\ \A p \in Slots :
           call[p].lookup \in {"null", "raised"} =>
               /\ Done(p)
               /\ call[p].result = "null"
               /\ call[p].error = "release"
               /\ call[p].net = {"release"}
               /\ ~call[p].wrote

\* An install of the latest release that met a catalog without one, while a
\* version was installed.
NoReleaseReturnsNull ==
    \E p \in Slots :
        /\ Done(p)
        /\ call[p].version = NoTag
        /\ call[p].lookup = "null"
        /\ call[p].result = "null"
        /\ Dirs(fs) # {}

CancelAbortsTransport ==
    xfer.outcome \in {"cancelled", "aborted"} => xfer.transport = "aborted"

\* C23: an activation never waits for ensureRockideBinary beyond the deadline:
\* once more than Deadline milliseconds have passed it has gone on, with null
\* and without a server if the resolution was still pending then.
ResolutionBoundedByDeadline ==
    act.elapsed > Deadline =>
        /\ act.pc # "waiting"
        /\ (act.timedOut => act.binaryPath = "null" /\ ~act.server)

\* The raced version alone keeps the deadline, and leaves the resolution
\* running: it can settle after the timer has fired.
RacedResolutionBoundedByDeadline ==
    act.entry = "raced" /\ act.elapsed >= Deadline /\ act.timer # "armed" =>
        /\ act.pc # "waiting"
        /\ (act.timedOut => act.binaryPath = "null" /\ ~act.server)

ResolutionSettledAfterDeadline ==
    /\ act.entry = "raced"
    /\ act.timedOut
    /\ act.resolution = "path"
    /\ ~act.server

\* C24: getRelease(version) returns a release whose tag is the version with or
\* without a leading "v" whenever the catalog holds one, whichever of the two
\* carries the prefix, and null when the catalog holds none.
GetReleaseAcceptsPrefix ==
    calc.op = "getRelease" /\ calc.done /\ calc.ok =>
        LET same(tag) == \/ tag = calc.version
                         \/ tag = "v" \o calc.version
                         \/ "v" \o tag = calc.version
            held == {i \in 1 .. Len(calc.releases) : same(calc.releases[i])}
        IN  IF held = {} THEN calc.value = "null"
            ELSE \E i \in held : calc.value = calc.releases[i]

\* C26: verifyFileHash is true exactly when the file can be read and the
\* expected value is its SHA-256 digest in hex, in either case of the letters;
\* on a file that cannot be read it is false.
VerifyFileHashIgnoresCase ==
    calc.op = "verifyFileHash" /\ calc.done =>
        (calc.value <=> /\ calc.file # "unreadable"
                        /\ calc.expectedHash \in DigestsOf(calc.file))

\* An upper-case expected digest accepted for the file it names.
UpperCaseDigestAccepted ==
    /\ calc.op = "verifyFileHash"
    /\ calc.done
    /\ calc.expectedHash = "0A"
    /\ calc.file = "good"
    /\ calc.value

\* C27: parseChecksumFile returns the digest, in lower case, of the first line
\* made of 64 hex digits, blanks, an optional asterisk and exactly the file
\* name, and null when the content has no such line.
ParseReturnsFirstExactLine ==
    calc.op = "parseChecksumFile" /\ calc.done =>
        LET naming == {i \in 1 .. Len(calc.lines) :
                          /\ calc.lines[i].len = SHA256_HEX_LENGTH
                          /\ calc.lines[i].sep
                          /\ calc.lines[i].name = calc.filename}
        IN  IF naming = {} THEN calc.value = "null"
            ELSE \E i \in naming :
                    /\ \A j \in naming : i <= j
                    /\ calc.value \in {"0a", "1b"}
                    /\ calc.lines[i].digest \in {calc.value, "0A"}
                    /\ (calc.lines[i].digest = "0A" <=> calc.value = "0a")

\* Two lines name the file with different digests, after none; the first
\* one is returned.
FirstOfTwoLinesReturned ==
    /\ calc.op = "parseChecksumFile"
    /\ calc.done
    /\ Len(calc.lines) = 2
    /\ Matches(calc.lines[1]) /\ calc.lines[1].name = calc.filename
    /\ Matches(calc.lines[2]) /\ calc.lines[2].name = calc.filename
    /\ calc.lines[1].digest = "0A"
    /\ calc.lines[1].star
    /\ calc.lines[2].digest = "1b"
    /\ calc.value = "0a"

\* C28: in an invocation that was given a checksum URL, the archive is
\* unpacked only after the manifest was fetched and its digest for the archive
\* matched the staged file.
ExtractOnlyAfterVerification ==
    \A p \in Slots :
        /\ call[p].checksumUrl
        /\ \/ call[p].pc \in {"extracting", "unstaging", "pruning", "validating"}
           \/ call[p].unpacked
        => /\ call[p].checksum = "match"
           /\ "checksums" \in call[p].net

\* A verified archive about to be unpacked.
VerifiedArchiveExtracting ==
    \E p \in Slots :
        /\ call[p].checksumUrl
        /\ call[p].pc = "extracting"
        /\ call[p].checksum = "match"
        /\ fs.archive = "good"

\* C30: cleanup(dir) raises nothing, whatever the directory holds; a file
\* that is locked stays, every file that can be unlinked is unlinked when no
\* other error interrupts the walk, and a directory in which something is
\* left stays in place.
CleanupIsBestEffort ==
    calc.op = "cleanup" /\ calc.done =>
        LET Locked(e) == ~e.dir /\ e.error \in LockCodes
            Removable(e) == ~e.dir /\ e.error = "none"
            Interrupting(e) == ~e.dir /\ e.error \in {"EIO", "stat"}
            interrupted == \E i \in 1 .. Len(calc.entries) :
                              Interrupting(calc.entries[i])
        IN  /\ ~calc.value.raised
            /\ (~calc.exists => ~calc.value.exists)
            /\ (calc.value.left # <<>> => calc.value.exists)
            /\ (calc.exists /\ ~interrupted =>
                   /\ SelectSeq(calc.value.left, Locked)
                        = SelectSeq(calc.entries, Locked)
                   /\ SelectSeq(calc.value.left, Removable) = <<>>)

\* A locked file followed by one that can be unlinked: the second is gone,
\* the first and the directory stay.
LockedFileSkipped ==
    /\ calc.op = "cleanup"
    /\ calc.done
    /\ calc.exists
    /\ Len(calc.entries) = 2
    /\ ~calc.entries[1].dir /\ calc.entries[1].error = "EBUSY"
    /\ ~calc.entries[2].dir /\ calc.entries[2].error = "none"
    /\ calc.value.left = <<calc.entries[1]>>
    /\ calc.value.exists
    /\ ~calc.value.raised

\* C31: extractTarGz returns the path of the executable or raises "Failed to
\* extract archive"; a directory that exists already is no error; and where
\* the platform is not Windows a returned path names a binary whose mode was
\* set to 0755.
ExtractedBinaryIsExecutable ==
    calc.op = "extractTarGz" /\ calc.done =>
        /\ calc.value.outcome \in {"path", "Failed to extract archive", "mkdir error"}
        /\ (calc.mkdir = "EEXIST" => calc.value.outcome # "mkdir error")
        /\ (calc.value.outcome = "path" /\ ~calc.isWindows =>
               calc.value.binary /\ calc.value.mode = "0755")

\* C32: an install that fails never reduces the set of valid installed
\* versions: when the forced install of an update has returned null, every
\* version whose binary was valid when install was called still has it.
FailedInstallKeepsValidVersions ==
    (cmd.pc = "installing" /\ Done(1) /\ call[1].result = "null")
        => cmd.valid \subseteq ValidVersions(fs)

\* C33: the version returned by install is the active one: with no override
\* configured, once install({version: V}) has returned a managed path, by a
\* fresh install or by the already-installed short-circuit, getActiveBinaryPath()
\* names that path and getCurrentVersion() names V's tag.
InstalledVersionIsActive ==
    \A p \in Slots :
        (Succeeded(p) /\ call[p].version # NoTag)
            => /\ getActiveBinaryPath(fs, FALSE) = call[p].tag
               /\ getCurrentVersion(fs, FALSE) = call[p].tag

\* C34: updates converge: when checkForUpdates() was true, the forced install
\* of the latest release that followed it has succeeded, and no newer release
\* has been published, checkForUpdates() is false, so that a further update
\* request downloads nothing.
UpdateConverges ==
    (/\ cmd.pc = "installing" /\ cmd.checked
     /\ Done(1) /\ call[1].result = "installed" /\ call[1].tag = latest)
        => \A customPath \in BOOLEAN :
               checkForUpdates(fs, customPath, "200") = "false"

\* C35: a fixed-path install that fails before the write step (no asset for
\* the platform, download failure or cancellation, checksum mismatch, gunzip or
\* unpack failure, executable entry missing) leaves the destination file and
\* <dest>.old exactly as they were when the call began.
FailedBeforeWriteLeavesFiles ==
    (/\ fixed.pc = "idle" /\ fixed.last = "thrown"
     /\ fixed.cause \in {"release", "asset"} \cup (AssetOutcomes \ {"ok"}))
        => /\ fixed.dest = fixed.before
           /\ fixed.old = fixed.beforeOld

\* A second update that failed its checksum: both files are on disk.
ChecksumFailureWithBothFiles ==
    /\ fixed.pc = "idle" /\ fixed.last = "thrown" /\ fixed.cause = "checksum"
    /\ Working(fixed.dest) /\ Working(fixed.old)
    /\ fixed.dest = fixed.before /\ fixed.old = fixed.beforeOld

\* A client that has been asked to start and whose process has not exited.
Alive(c) == lsp.status[c] \in {"starting", "running", "stopping", "disposing", "stop failed"}

\* C36: at most one language client exists at any time: whatever the
\* interleaving of startClient and stopClient calls, never more than one client
\* has been started and not yet fully stopped and disposed, and startClient is
\* rejected whenever a client is current.
AtMostOneClient ==
    /\ Cardinality({c \in Clients : Alive(c)}) <= 1
    /\ lsp.current # NoTag => startClient(lsp).last = "rejected"

\* C37: a failed client start does not wedge the lifecycle: once
\* client.start() has failed inside startClient, the module is back in the
\* no-client state, so that a later startClient is not rejected.
FailedStartLeavesNoClient ==
    \A c \in Clients :
        lsp.status[c] = "failed" =>
            /\ lsp.current # c
            /\ (lsp.current = NoTag => startClient(lsp).last # "rejected")

\* C38: an accepted update stops the client before the binary is replaced and
\* restarts it afterwards: the client that ran before is down while
\* installRockide works, and when updateRockide has finished, installRockide
\* having returned or thrown, the client has been started again.
UpdateRestartsClient ==
    /\ lsp.upd.pc = "installing" =>
           (IF lsp.upd.client = NoTag THEN TRUE ELSE ~Alive(lsp.upd.client))
    /\ (lsp.upd.pc = "done" /\ lsp.upd.was /\ lsp.upd.install # "none"
            /\ lsp.upd.restart \notin {"rejected", "failed"})
          => lsp.upd.restart = "started"

====
